---- MODULE Spec2Model ----
(***************************************************************************)
(* chatgpt-client: the branching conversation tree, the session controller *)
(* of client.py (ChatClient), its worker threads and its state file.       *)
(*                                                                         *)
(* Python indices are kept 0-based as in the source; a TLA+ sequence is    *)
(* 1-based, so an access s[i] of the source reads s[i + 1] here.           *)
(***************************************************************************)
EXTENDS Integers, Sequences, FiniteSets, TLC

\* Python's None, for the optional integers of the program.
None == -1

\* ---------------------------------------------------------------- bounds
\* Messages in the conversation collection, all trees together.
MaxNodes == 5
\* Conversations in the collection.
MaxConvs == 2

\* ------------------------------------------------- models.py: the tree
\* A Message: role, content, the children it owns and the index of the
\* child it remembers as selected (None while it has no child).
ChatMessage(role, content) ==
    [role |-> role, content |-> content, children |-> <<>>,
     current_child_idx |-> None]

\* ConversationTree(): no message yet. A tree is <<>> or <<root>>.
ConversationTree == <<>>

RECURSIVE walk(_)
walk(msg) ==
    IF msg.current_child_idx = None
    THEN <<msg>>
    ELSE <<msg>> \o walk(msg.children[msg.current_child_idx + 1])

\* root -> leaf through each node's selected child.
get_current_conversation(conv) ==
    IF conv = <<>> THEN <<>> ELSE walk(conv[1])

get_current_conversation_as_dicts(conv) ==
    LET cur == get_current_conversation(conv)
    IN  [i \in 1..Len(cur) |-> [role |-> cur[i].role, content |-> cur[i].content]]

get_branch_width(conv, index) ==
    Len(get_current_conversation(conv)[index + 1].children)

RECURSIVE add_below(_, _, _)
\* The node `depth` steps down the current path gets `new` as its last child
\* and selects it.
add_below(msg, depth, new) ==
    IF depth = 0
    THEN [msg EXCEPT !.children = Append(@, new),
                     !.current_child_idx = Len(msg.children)]
    ELSE [msg EXCEPT !.children[msg.current_child_idx + 1] =
                         add_below(@, depth - 1, new)]

\* add_message(role, content, after_index=None). The client passes
\* after_index = sibling_level - 1 >= 0 only, so None (-1) is never a position.
add_message(conv, role, content, after_index) ==
    IF conv = <<>>
    THEN <<ChatMessage(role, content)>>
    ELSE LET depth == IF after_index = None
                      THEN Len(get_current_conversation(conv)) - 1
                      ELSE after_index
         IN  <<add_below(conv[1], depth, ChatMessage(role, content))>>

RECURSIVE select_below(_, _, _)
select_below(msg, depth, branch_index) ==
    IF depth = 0
    THEN [msg EXCEPT !.current_child_idx = branch_index]
    ELSE [msg EXCEPT !.children[msg.current_child_idx + 1] =
                         select_below(@, depth - 1, branch_index)]

\* change_branch raises when index or branch_index is out of bounds.
change_branch_raises(conv, index, branch_index) ==
    LET cur == get_current_conversation(conv)
    IN  \/ index < 0
        \/ index >= Len(cur)
        \/ branch_index < 0
        \/ branch_index >= Len(cur[index + 1].children)

change_branch(conv, index, branch_index) ==
    <<select_below(conv[1], index, branch_index)>>

RECURSIVE serialize_node(_)
\* { role, content, children: [...], selected_child: integer | absent }
serialize_node(msg) ==
    [role |-> msg.role, content |-> msg.content,
     children |-> [k \in 1..Len(msg.children) |-> serialize_node(msg.children[k])],
     selected_child |-> msg.current_child_idx]

serialize(conv) == serialize_node(conv[1])

RECURSIVE unserialize_node(_)
unserialize_node(blob) ==
    [role |-> blob.role, content |-> blob.content,
     children |-> [k \in 1..Len(blob.children) |-> unserialize_node(blob.children[k])],
     current_child_idx |-> blob.selected_child]

unserialize(blob) == <<unserialize_node(blob)>>

RECURSIVE CountNodes(_)
CountNodes(msg) ==
    LET RECURSIVE sum(_)
        sum(k) == IF k = 0 THEN 0 ELSE CountNodes(msg.children[k]) + sum(k - 1)
    IN  1 + sum(Len(msg.children))

\* ------------------------------------------------ client.py: rendering
speaker_str(role) ==
    CASE role = "system" -> "System"
      [] role = "user" -> "You"
      [] role = "assistant" -> "ChatGPT"
      [] OTHER -> role

\* stringify_conversation printing child_idx itself as k.
stringify_conversation_child_idx(conv) ==
    LET current_conv == get_current_conversation(conv)
    IN  [n \in 1..Len(current_conv) |->
            LET i == n - 1
                msg == current_conv[n]
            IN  IF i = 0
                THEN [i |-> i, k |-> None, width |-> None,
                      speaker |-> speaker_str(msg.role), content |-> msg.content]
                ELSE [i |-> i,
                      k |-> current_conv[n - 1].current_child_idx,
                      width |-> get_branch_width(conv, i - 1),
                      speaker |-> speaker_str(msg.role), content |-> msg.content]]

\* One entry per message of the current conversation; entry i >= 1 carries the
\* branch indicator (k/width) = (child_idx + 1 / branch_width).
stringify_conversation(conv) ==
    LET current_conv == get_current_conversation(conv)
    IN  [n \in 1..Len(current_conv) |->
            LET i == n - 1
                msg == current_conv[n]
            IN  IF i = 0
                THEN [i |-> i, k |-> None, width |-> None,
                      speaker |-> speaker_str(msg.role), content |-> msg.content]
                ELSE [i |-> i,
                      k |-> current_conv[n - 1].current_child_idx + 1,
                      width |-> get_branch_width(conv, i - 1),
                      speaker |-> speaker_str(msg.role), content |-> msg.content]]

\* ------------------------------------------------ client.py: the inputs
\* A text of the input box is the sequence of its whitespace-separated words
\* (str.split()); the words the model types:
IntWord == <<"0", "1", "2", "3", "4", "5", "6", "7", "8", "9">>

IsIntWord(word) == \E n \in 1..Len(IntWord) : IntWord[n] = word

\* int(word), for a word int() accepts.
int(word) == (CHOOSE n \in 1..Len(IntWord) : IntWord[n] = word) - 1

\* The text of a plain message, and the text typed after /nb N.
PromptText == <<"hello">>
BranchText == <<"hi", "there">>

\* input_string.startswith(prefix), decided by the first word.
startswith(input_string, prefix) ==
    /\ Len(input_string) > 0
    /\ input_string[1] \in
         CASE prefix = "/sw" -> {"/sw", "/swap"}
           [] prefix = "/nb" -> {"/nb"}
           [] prefix = "/" -> {"/sw", "/swap", "/nb", "/help"}

\* input_string.split(maxsplit=2): two words and the rest of the text.
split_maxsplit2(input_string) ==
    IF Len(input_string) <= 2
    THEN input_string
    ELSE <<input_string[1], input_string[2], SubSeq(input_string, 3, Len(input_string))>>

\* The texts the model types when the current path has path_len messages, the
\* widest of them max_width children: every level and alternative that exists,
\* the ones just outside, and words that are no numbers.
Inputs(path_len, max_width) ==
    LET levels == {IntWord[n + 1] : n \in 0..(path_len + 1)}
        alternatives == {IntWord[n + 1] : n \in 0..(max_width + 1)}
    IN  {PromptText}
        \cup {<<"/sw">>, <<"/sw", "1">>, <<"/sw", "1", "1", "1">>, <<"/swap", "1", "1">>}
        \cup {<<"/sw", "x", "1">>, <<"/sw", "1", "x">>}
        \cup {<<"/sw", a, b>> : a \in levels, b \in alternatives}
        \cup {<<"/nb">>, <<"/help">>, <<"/nb", "x">>, <<"/nb", "x">> \o BranchText}
        \cup {<<"/nb", a>> : a \in levels}
        \cup {<<"/nb", a>> \o BranchText : a \in levels}

\* What the provider may answer: a reply (the offline stub tags its reply with
\* a random number) and a title.
Replies == {<<"reply">>, <<"another", "reply">>}
Titles == {"Chat"}

\* ------------------------------------------------ client.py: the state
VARIABLES
    app,             \* "off" | "running" | "crashed": the process
    self,            \* the ChatClient frame: its fields and widgets
    threads,         \* the worker threads that have not ended
    pending,         \* wx.CallAfter calls not yet run by the main loop
    stateFile,       \* state.dat as the next load will find it
    openai_api_key   \* whether OPENAI_API_KEY is set

vars == <<app, self, threads, pending, stateFile, openai_api_key>>

\* right_text: the conversation last rendered into it (Clear, then
\* AppendText(stringify_conversation(...))) and the text AppendText added last
\* after that ("" when none was).
AppendText(right_text, text) == [right_text EXCEPT !.appended = text]

\* ChatClient.__init__ before self.load().
NewChatClient ==
    [conversations |-> <<>>,
     current_conversation |-> None,
     current_conversation_idx |-> None,
     right_text |-> [conversation |-> <<>>, appended |-> "Press 'New conversation'"],
     right_button |-> TRUE,
     left_button |-> TRUE,
     left_list |-> [enabled |-> TRUE, items |-> <<>>, selection |-> None]]

\* The tree object a reference designates. Trees are never removed from
\* self.conversations nor moved in it, so a tree object is designated by the
\* (0-based) place of its pair.
TreeAt(s, ref) == s.conversations[ref + 1][2]

TitleAt(s, idx) == s.conversations[idx + 1][1]

\* A process of the program: the frame, its threads and the main loop's queue.
\* The handlers below map one to the next; raised names the exception that
\* left the handler, if one did.
World == [self |-> self, threads |-> threads, pending |-> pending, raised |-> "none"]

refresh_conversation_detail(s) ==
    [s EXCEPT !.right_text =
        [conversation |-> stringify_conversation(TreeAt(s, s.current_conversation)),
         appended |-> ""]]

Reversed(seq) == [i \in 1..Len(seq) |-> seq[Len(seq) + 1 - i]]

refresh_conversation_list(s) ==
    LET rev == Reversed(s.conversations)
        conversation_titles == [i \in 1..Len(rev) |-> rev[i][1]]
        \* the last i (0-based) whose tree is the current one, else 0
        hits == {i \in 0..(Len(rev) - 1) :
                    s.current_conversation = Len(s.conversations) - 1 - i}
        current_idx == IF hits = {} THEN 0 ELSE CHOOSE i \in hits : \A j \in hits : j <= i
    IN  [s EXCEPT !.left_list.items = conversation_titles,
                  !.left_list.selection =
                      IF Len(conversation_titles) > 0 THEN current_idx ELSE @]

\* start_thinking_state forgetting to disable the conversation list.
start_thinking_state_list_enabled(s) ==
    [s EXCEPT !.right_text = AppendText(@, "ChatGPT is thinking..."),
              !.right_button = FALSE,
              !.left_button = FALSE]

\* start_thinking_state forgetting to disable the Send button.
start_thinking_state_send_enabled(s) ==
    [s EXCEPT !.right_text = AppendText(@, "ChatGPT is thinking..."),
              !.left_list.enabled = FALSE,
              !.left_button = FALSE]

start_thinking_state(s) ==
    [s EXCEPT !.right_text = AppendText(@, "ChatGPT is thinking..."),
              !.right_button = FALSE,
              !.left_list.enabled = FALSE,
              !.left_button = FALSE]

stop_thinking_state(s) ==
    [s EXCEPT !.right_button = TRUE,
              !.left_list.enabled = TRUE,
              !.left_button = TRUE]

create_conversation(s) ==
    LET new_conv == add_message(ConversationTree, "system",
                                <<"You are a helpful assistant.">>, None)
        s1 == [s EXCEPT !.conversations = Append(@, <<"New conversation", new_conv>>),
                        !.current_conversation = Len(s.conversations),
                        !.current_conversation_idx = Len(s.conversations)]
    IN  refresh_conversation_detail(refresh_conversation_list(s1))

\* --------------------------------------- client.py: starting the workers
\* A thread not yet run: its target, the tree object and the callback it was
\* given, and the path it has read so far (none).
Thread(target, conv, and_then, truncate_before) ==
    [target |-> target, conv |-> conv, and_then |-> and_then,
     truncate_before |-> truncate_before, pc |-> "start", curr_conv |-> <<>>]

get_next_completion(w, conv, and_then, truncate_before) ==
    [w EXCEPT !.threads =
        Append(@, Thread("_get_next_completion_thread", conv, and_then, truncate_before))]

get_title_for_conversation_thread(w, conv, and_then) ==
    [w EXCEPT !.threads =
        Append(@, Thread("_get_title_for_conversation_thread", conv, and_then, None))]

\* post_completion of get_title_for_conversation closes over idx; the tree
\* handed to the thread is self.conversations[idx][1].
get_title_for_conversation(w, idx) ==
    get_title_for_conversation_thread(w, idx,
        [fn |-> "get_title_for_conversation.post_completion", arg |-> idx])

\* ------------------------------------------- client.py: the operations
add_to_conversation(w, role, content) ==
    LET s == w.self
        s1 == refresh_conversation_detail(
                 [s EXCEPT !.conversations[s.current_conversation + 1][2] =
                               add_message(@, role, content, None)])
        idx == s1.current_conversation_idx
    IN  IF TitleAt(s1, idx) = "New conversation" /\ role = "assistant"
        THEN get_title_for_conversation(
                 [w EXCEPT !.self = refresh_conversation_list(
                     [s1 EXCEPT !.conversations[idx + 1][1] = "Retrieving title..."])],
                 idx)
        ELSE [w EXCEPT !.self = s1]

\* The value add_to_branch returns.
add_to_branch_returns(s, sibling_level) ==
    /\ sibling_level >= 1
    /\ sibling_level < Len(get_current_conversation(TreeAt(s, s.current_conversation)))

\* add_to_branch handing sibling_level itself to add_message.
add_to_branch_after_sibling_level(s, sibling_level, role, content) ==
    IF add_to_branch_returns(s, sibling_level)
    THEN refresh_conversation_detail(
             [s EXCEPT !.conversations[s.current_conversation + 1][2] =
                           add_message(@, role, content, sibling_level)])
    ELSE [s EXCEPT !.right_text =
             AppendText(@, "requested sibling level outside range")]

add_to_branch(s, sibling_level, role, content) ==
    IF add_to_branch_returns(s, sibling_level)
    THEN refresh_conversation_detail(
             [s EXCEPT !.conversations[s.current_conversation + 1][2] =
                           add_message(@, role, content, sibling_level - 1)])
    ELSE [s EXCEPT !.right_text =
             AppendText(@, "requested sibling level outside range")]

\* switch_branch handing msg_idx itself to change_branch.
switch_branch_at_msg_idx(s, msg_idx, branch_idx) ==
    IF change_branch_raises(TreeAt(s, s.current_conversation), msg_idx, branch_idx - 1)
    THEN [s EXCEPT !.right_text = AppendText(@, "str(e)")]
    ELSE refresh_conversation_detail(
             [s EXCEPT !.conversations[s.current_conversation + 1][2] =
                           change_branch(@, msg_idx, branch_idx - 1)])

\* switch_branch handing branch_idx itself to change_branch.
switch_branch_at_branch_idx(s, msg_idx, branch_idx) ==
    IF change_branch_raises(TreeAt(s, s.current_conversation), msg_idx - 1, branch_idx)
    THEN [s EXCEPT !.right_text = AppendText(@, "str(e)")]
    ELSE refresh_conversation_detail(
             [s EXCEPT !.conversations[s.current_conversation + 1][2] =
                           change_branch(@, msg_idx - 1, branch_idx)])

switch_branch(s, msg_idx, branch_idx) ==
    IF change_branch_raises(TreeAt(s, s.current_conversation), msg_idx - 1, branch_idx - 1)
    THEN [s EXCEPT !.right_text = AppendText(@, "str(e)")]
    ELSE refresh_conversation_detail(
             [s EXCEPT !.conversations[s.current_conversation + 1][2] =
                           change_branch(@, msg_idx - 1, branch_idx - 1)])

\* curr_conv[msg_idx] with msg_idx = len(curr_conv) passes the test of
\* role_at_level and raises IndexError.
role_at_level_raises(s, msg_idx) ==
    msg_idx = Len(get_current_conversation(TreeAt(s, s.current_conversation)))

role_at_level(s, msg_idx) ==
    LET curr_conv == get_current_conversation(TreeAt(s, s.current_conversation))
    IN  IF msg_idx >= 0 /\ msg_idx <= Len(curr_conv)
        THEN curr_conv[msg_idx + 1].role
        ELSE "?"

\* new_branch asking, for a user branch too, for the path cut at sibling_level.
new_branch_truncating(w, sibling_level, content) ==
    LET s == w.self
    IN  IF add_to_branch_returns(s, sibling_level)
        THEN IF role_at_level(s, sibling_level) = "assistant"
             THEN get_next_completion(
                      [w EXCEPT !.self = start_thinking_state(s)],
                      s.current_conversation,
                      [fn |-> "add_to_branch", arg |-> sibling_level],
                      sibling_level)
             ELSE get_next_completion(
                      [w EXCEPT !.self = start_thinking_state(
                                             add_to_branch(s, sibling_level, "user", content))],
                      s.current_conversation,
                      [fn |-> "add_to_conversation", arg |-> None],
                      sibling_level)
        ELSE [w EXCEPT !.self.right_text =
                 AppendText(@, "requested sibling level for new-branch outside range")]

new_branch(w, sibling_level, content) ==
    LET s == w.self
    IN  IF add_to_branch_returns(s, sibling_level)
        THEN IF role_at_level(s, sibling_level) = "assistant"
             THEN get_next_completion(
                      [w EXCEPT !.self = start_thinking_state(s)],
                      s.current_conversation,
                      [fn |-> "add_to_branch", arg |-> sibling_level],
                      sibling_level)
             ELSE get_next_completion(
                      [w EXCEPT !.self = start_thinking_state(
                                             add_to_branch(s, sibling_level, "user", content))],
                      s.current_conversation,
                      [fn |-> "add_to_conversation", arg |-> None],
                      None)
        ELSE [w EXCEPT !.self.right_text =
                 AppendText(@, "requested sibling level for new-branch outside range")]

new_child(w, input_string) ==
    LET w1 == add_to_conversation(w, "user", input_string)
    IN  get_next_completion(
            [w1 EXCEPT !.self = start_thinking_state(w1.self)],
            w1.self.current_conversation,
            [fn |-> "add_to_conversation", arg |-> None],
            None)

unrecognized_command(w) ==
    [w EXCEPT !.self.right_text = AppendText(@, "unrecognized / command")]

\* An exception that leaves a handler: wx prints the traceback, the rest of
\* the handler is not run and the main loop goes on.
Raise(w, exception) == [w EXCEPT !.raised = exception]

parse_command(w, input_string) ==
    IF startswith(input_string, "/sw")
    THEN LET parts == input_string
         IN  IF Len(parts) = 3
             THEN IF IsIntWord(parts[2]) /\ IsIntWord(parts[3])
                  THEN [w EXCEPT !.self = switch_branch(@, int(parts[2]), int(parts[3]))]
                  ELSE Raise(w, "ValueError")
             ELSE unrecognized_command(w)
    ELSE IF startswith(input_string, "/nb")
    THEN LET parts == split_maxsplit2(input_string)
         IN  IF Len(parts) = 3
             THEN IF IsIntWord(parts[2])
                  THEN new_branch(w, int(parts[2]), parts[3])
                  ELSE Raise(w, "ValueError")
             ELSE IF Len(parts) = 2
             THEN IF ~IsIntWord(parts[2])
                  THEN Raise(w, "ValueError")
                  ELSE IF role_at_level_raises(w.self, int(parts[2]))
                  THEN Raise(w, "IndexError")
                  ELSE IF role_at_level(w.self, int(parts[2])) = "assistant"
                  THEN new_branch(w, int(parts[2]), <<>>)
                  ELSE [w EXCEPT !.self.right_text =
                           AppendText(@, "new-branch also requires a prompt")]
             ELSE unrecognized_command(w)
    ELSE IF startswith(input_string, "/")
    THEN unrecognized_command(w)
    ELSE new_child(w, input_string)

on_send_pressed(w, input_string) ==
    IF w.self.current_conversation = None
    THEN parse_command([w EXCEPT !.self = create_conversation(@)], input_string)
    ELSE parse_command(w, input_string)

\* on_conversation_list_selected taking the list position, which counts from
\* the newest conversation, for the index.
on_conversation_list_selected_idx_is_selection(s, selection) ==
    LET s1 == [s EXCEPT !.left_list.selection = selection]
    IN  IF selection # None
        THEN refresh_conversation_detail(
                 [s1 EXCEPT !.current_conversation_idx = selection,
                            !.current_conversation = Len(s.conversations) - 1 - selection])
        ELSE s1

on_conversation_list_selected(s, selection) ==
    LET s1 == [s EXCEPT !.left_list.selection = selection]
    IN  IF selection # None
        THEN refresh_conversation_detail(
                 [s1 EXCEPT !.current_conversation_idx = Len(s.conversations) - 1 - selection,
                            !.current_conversation = Len(s.conversations) - 1 - selection])
        ELSE s1

\* ------------------------------------------- client.py: the state file
\* state.dat: absent, text that is not JSON, or a JSON value; has_keys tells a
\* JSON object with the keys 'conversations' and 'current_conv_idx' from any
\* other JSON value, written_by the program's own save from any other writer.
File(kind, has_keys, conversations, current_conv_idx, written_by) ==
    [kind |-> kind, has_keys |-> has_keys, conversations |-> conversations,
     current_conv_idx |-> current_conv_idx, written_by |-> written_by]

MissingFile == File("missing", FALSE, <<>>, None, "nobody")

\* Files of another origin than save: not JSON; JSON of another shape ({});
\* JSON of the right shape whose index addresses no conversation.
ForeignFiles ==
    {File("not json", FALSE, <<>>, None, "other"),
     File("json", FALSE, <<>>, None, "other"),
     File("json", TRUE, <<>>, 0, "other")}

\* state.dat is read by load alone, which __init__ alone calls, and on_close
\* overwrites it before the process ends: from a load that succeeded until that
\* save, what it holds is read by nobody and is not followed.
SupersededFile == File("superseded", FALSE, <<>>, None, "nobody")

save(s) ==
    File("json", TRUE,
         [i \in 1..Len(s.conversations) |->
             <<s.conversations[i][1], serialize(s.conversations[i][2])>>],
         s.current_conversation_idx, "save")

\* The exception load lets through to __init__ ("none": it returns).
load_raises(file) ==
    CASE file.kind # "json" -> "none"
      [] file.kind = "json" /\ ~file.has_keys -> "KeyError"
      [] file.kind = "json" /\ file.has_keys /\ file.current_conv_idx = None -> "TypeError"
      [] file.kind = "json" /\ file.has_keys /\ file.current_conv_idx # None
            /\ file.current_conv_idx >= Len(file.conversations) -> "IndexError"
      [] OTHER -> "none"

load(w, file) ==
    IF file.kind = "missing"
    THEN w      \* OSError: pass
    ELSE IF file.kind = "not json"
    THEN w      \* json.JSONDecodeError: printed
    ELSE LET s1 == [w.self EXCEPT
                       !.conversations =
                           [i \in 1..Len(file.conversations) |->
                               <<file.conversations[i][1],
                                 unserialize(file.conversations[i][2])>>],
                       !.current_conversation_idx = file.current_conv_idx,
                       !.current_conversation = file.current_conv_idx]
         IN  [w EXCEPT !.self = refresh_conversation_detail(refresh_conversation_list(s1))]

\* ----------------------------------------------------------- the bounds
InFlight(w) ==
    Cardinality({i \in 1..Len(w.threads) :
        w.threads[i].target = "_get_next_completion_thread"})

RECURSIVE CountAll(_, _)
CountAll(s, n) ==
    IF n = 0 THEN 0 ELSE CountNodes(s.conversations[n][2][1]) + CountAll(s, n - 1)

\* A user action is explored while its outcome, with the replies under way
\* added, stays within the bounds.
WithinBounds(w) ==
    /\ Len(w.self.conversations) <= MaxConvs
    /\ CountAll(w.self, Len(w.self.conversations)) + InFlight(w) <= MaxNodes

Become(w) ==
    /\ self' = w.self
    /\ threads' = w.threads
    /\ pending' = w.pending

\* ---------------------------------------------------------- the actions
Init ==
    /\ app = "off"
    /\ self = NewChatClient
    /\ threads = <<>>
    /\ pending = <<>>
    /\ stateFile \in {MissingFile} \cup ForeignFiles
    /\ openai_api_key \in BOOLEAN

\* python client.py: ChatClient(None, ...) runs __init__, which ends in load.
Launch ==
    /\ app # "running"
    /\ LET w0 == [self |-> NewChatClient, threads |-> <<>>, pending |-> <<>>, raised |-> "none"]
       IN  IF load_raises(stateFile) # "none"
           THEN /\ app' = "crashed"
                /\ Become(w0)
                /\ UNCHANGED stateFile
           ELSE /\ app' = "running"
                /\ Become(load(w0, stateFile))
                /\ stateFile' = SupersededFile
    /\ UNCHANGED openai_api_key

\* EVT_CLOSE: on_close saves; the window goes and the process ends. What its
\* threads and queued calls still do can reach neither the file already
\* written nor a later process, and is dropped with them.
OnClose ==
    /\ app = "running"
    /\ app' = "off"
    /\ stateFile' = save(self)
    /\ self' = NewChatClient
    /\ threads' = <<>>
    /\ pending' = <<>>
    /\ UNCHANGED openai_api_key

\* The texts typed in the state at hand (a first Send creates a conversation,
\* whose path is the system message).
TypedInputs ==
    IF self.current_conversation = None
    THEN Inputs(1, 0)
    ELSE LET cur == get_current_conversation(TreeAt(self, self.current_conversation))
             RECURSIVE widest(_)
             widest(n) == IF n = 0 THEN 0
                          ELSE LET rest == widest(n - 1)
                               IN  IF Len(cur[n].children) > rest
                                   THEN Len(cur[n].children) ELSE rest
         IN  Inputs(Len(cur), widest(Len(cur)))

\* The Send button: pressable while enabled.
Send(input_string) ==
    /\ app = "running"
    /\ self.right_button
    /\ LET w == on_send_pressed(World, input_string)
       IN  WithinBounds(w) /\ Become(w)
    /\ UNCHANGED <<app, stateFile, openai_api_key>>

OnSendPressed == \E input_string \in TypedInputs : Send(input_string)

\* The New conversation button.
OnNewConversationPressed ==
    /\ app = "running"
    /\ self.left_button
    /\ LET w == [World EXCEPT !.self = create_conversation(@)]
       IN  WithinBounds(w) /\ Become(w)
    /\ UNCHANGED <<app, stateFile, openai_api_key>>

\* A click on an item of the conversation list.
OnConversationListSelected ==
    /\ app = "running"
    /\ self.left_list.enabled
    /\ \E selection \in 0..(Len(self.left_list.items) - 1) :
          Become([World EXCEPT !.self = on_conversation_list_selected(@, selection)])
    /\ UNCHANGED <<app, stateFile, openai_api_key>>

\* The main loop runs the oldest wx.CallAfter call.
call(w, c) ==
    CASE c.fn = "add_to_conversation" -> add_to_conversation(w, c.role, c.content)
      [] c.fn = "add_to_branch" ->
            [w EXCEPT !.self = add_to_branch(@, c.arg, c.role, c.content)]
      [] c.fn = "stop_thinking_state" -> [w EXCEPT !.self = stop_thinking_state(@)]

MainLoopCallAfter ==
    /\ app = "running"
    /\ pending # <<>>
    /\ Become(call([World EXCEPT !.pending = Tail(@)], Head(pending)))
    /\ UNCHANGED <<app, stateFile, openai_api_key>>

\* ----------------------------------------------------------- the workers
RemoveAt(seq, i) == SubSeq(seq, 1, i - 1) \o SubSeq(seq, i + 1, Len(seq))

\* curr_conv[:truncate_before + 1]: the turn to be replaced is sent as well.
Truncated_with_replaced_turn(curr_conv, truncate_before) ==
    IF truncate_before = None \/ truncate_before + 1 >= Len(curr_conv)
    THEN curr_conv
    ELSE SubSeq(curr_conv, 1, truncate_before + 1)

\* curr_conv[:truncate_before]
Truncated(curr_conv, truncate_before) ==
    IF truncate_before = None \/ truncate_before >= Len(curr_conv)
    THEN curr_conv
    ELSE SubSeq(curr_conv, 1, truncate_before)

\* post_completion with its two wx.CallAfter calls in the other order.
post_completion_stop_first(w, and_then, resp) ==
    [w EXCEPT !.pending = @ \o
        <<[fn |-> "stop_thinking_state", arg |-> None,
           role |-> "", content |-> <<>>],
          [fn |-> and_then.fn, arg |-> and_then.arg,
           role |-> resp.role, content |-> resp.content]>>]

\* post_completion of new_child and new_branch, run by the worker: two
\* wx.CallAfter calls, the mutation first.
post_completion(w, and_then, resp) ==
    [w EXCEPT !.pending = @ \o
        <<[fn |-> and_then.fn, arg |-> and_then.arg,
           role |-> resp.role, content |-> resp.content],
          [fn |-> "stop_thinking_state", arg |-> None,
           role |-> "", content |-> <<>>]>>]

\* post_completion of get_title_for_conversation writing the title of the
\* conversation that is current when the result arrives.
title_post_completion_to_current(w, idx, resp) ==
    [w EXCEPT !.self = refresh_conversation_list(
        [@ EXCEPT !.conversations[w.self.current_conversation_idx + 1][1] = resp.content])]

\* post_completion of get_title_for_conversation, run by the worker: it sets
\* the title and refreshes the list itself.
title_post_completion(w, idx, resp) ==
    [w EXCEPT !.self = refresh_conversation_list(
        [@ EXCEPT !.conversations[idx + 1][1] = resp.content])]

\* _get_next_completion_thread up to the provider call: with a key, the worker
\* reads the path of the tree it was handed and truncates it; without one it
\* makes the stub reply and calls and_then.
CompletionThreadStart(i) ==
    /\ app = "running"
    /\ threads[i].target = "_get_next_completion_thread"
    /\ threads[i].pc = "start"
    /\ IF openai_api_key
       THEN Become([World EXCEPT
                !.threads[i].curr_conv =
                    Truncated(get_current_conversation_as_dicts(TreeAt(self, threads[i].conv)),
                              threads[i].truncate_before),
                !.threads[i].pc = "create"])
       ELSE \E content \in Replies :
                Become(post_completion(
                    [World EXCEPT !.threads = RemoveAt(@, i)],
                    threads[i].and_then,
                    [role |-> "assistant", content |-> content]))
    /\ UNCHANGED <<app, stateFile, openai_api_key>>

\* openai.ChatCompletion.create returns: and_then(resp).
CompletionThreadReturns(i) ==
    /\ app = "running"
    /\ threads[i].target = "_get_next_completion_thread"
    /\ threads[i].pc = "create"
    /\ \E content \in Replies :
          Become(post_completion(
              [World EXCEPT !.threads = RemoveAt(@, i)],
              threads[i].and_then,
              [role |-> "assistant", content |-> content]))
    /\ UNCHANGED <<app, stateFile, openai_api_key>>

\* openai.ChatCompletion.create raises, in either worker: nothing catches it,
\* threading prints the traceback and the thread ends.
ThreadRaises(i) ==
    /\ app = "running"
    /\ threads[i].pc = "create"
    /\ Become([World EXCEPT !.threads = RemoveAt(@, i)])
    /\ UNCHANGED <<app, stateFile, openai_api_key>>

\* _get_title_for_conversation_thread up to the provider call: without a key,
\* or with a path shorter than 3, it ends without a word.
TitleThreadStart(i) ==
    /\ app = "running"
    /\ threads[i].target = "_get_title_for_conversation_thread"
    /\ threads[i].pc = "start"
    /\ LET curr_conv == get_current_conversation_as_dicts(TreeAt(self, threads[i].conv))
       IN  IF openai_api_key /\ Len(curr_conv) >= 3
           THEN Become([World EXCEPT !.threads[i].curr_conv = curr_conv,
                                     !.threads[i].pc = "create"])
           ELSE Become([World EXCEPT !.threads = RemoveAt(@, i)])
    /\ UNCHANGED <<app, stateFile, openai_api_key>>

TitleThreadReturns(i) ==
    /\ app = "running"
    /\ threads[i].target = "_get_title_for_conversation_thread"
    /\ threads[i].pc = "create"
    /\ \E content \in Titles :
          Become(title_post_completion(
              [World EXCEPT !.threads = RemoveAt(@, i)],
              threads[i].and_then.arg,
              [role |-> "assistant", content |-> content]))
    /\ UNCHANGED <<app, stateFile, openai_api_key>>

WorkerStep ==
    \E i \in 1..Len(threads) :
        \/ CompletionThreadStart(i)
        \/ CompletionThreadReturns(i)
        \/ ThreadRaises(i)
        \/ TitleThreadStart(i)
        \/ TitleThreadReturns(i)

Next ==
    \/ Launch
    \/ OnClose
    \/ OnSendPressed
    \/ OnNewConversationPressed
    \/ OnConversationListSelected
    \/ MainLoopCallAfter
    \/ \E i \in 1..Len(threads) : CompletionThreadStart(i)
    \/ \E i \in 1..Len(threads) : CompletionThreadReturns(i)
    \/ \E i \in 1..Len(threads) : ThreadRaises(i)
    \/ \E i \in 1..Len(threads) : TitleThreadStart(i)
    \/ \E i \in 1..Len(threads) : TitleThreadReturns(i)

Spec == Init /\ [][Next]_vars

\* The main loop runs every call handed to wx.CallAfter, and a started thread
\* runs until the provider has answered or failed.
FairSpec == Spec /\ WF_vars(MainLoopCallAfter) /\ WF_vars(WorkerStep)

\* ------------------------------------------------------------ the claims
\* The session state machine of the spec, read off the widgets and the work
\* under way: Idle (Send enabled); Fetch (a completion thread has not ended);
\* Deliver (its reply waits in the main loop's queue); Delivered (only
\* stop_thinking_state waits); Stuck (Send disabled and nothing under way).
CompletionThreads ==
    {i \in 1..Len(threads) : threads[i].target = "_get_next_completion_thread"}

Fetching == app = "running" /\ ~self.right_button

Idle ==
    /\ app = "running"
    /\ self.right_button
    /\ self.left_button
    /\ self.left_list.enabled

Phase ==
    IF app # "running" THEN "no process"
    ELSE IF self.right_button THEN "Idle"
    ELSE IF CompletionThreads # {} THEN "Fetch"
    ELSE IF pending = <<>> THEN "Stuck"
    ELSE IF Head(pending).fn = "stop_thinking_state" THEN "Delivered"
    ELSE "Deliver"

Trees == [n \in 1..Len(self.conversations) |-> self.conversations[n][2]]

CurrentPath == get_current_conversation(TreeAt(self, self.current_conversation))

\* C1: whenever the controller enters Fetching it eventually returns to Idle,
\* whatever the outcome of the fetch, a provider failure in the worker included
\* (unless the user closes the window first, which ends the process).
C1_FetchingLeadsToIdle == Fetching ~> (Idle \/ app # "running")

\* C2: when the provider call of a completion fetch fails, a text is appended
\* to the transcript, no fetch is issued again and no tree changes.
C2_FailureReported ==
    [][\A i \in 1..Len(threads) :
          (threads[i].target = "_get_next_completion_thread" /\ ThreadRaises(i))
          => /\ self'.right_text.appended \notin {"", "ChatGPT is thinking..."}
             /\ self'.conversations = self.conversations
             /\ threads' = RemoveAt(threads, i)]_vars

\* C3: at most one completion fetch is in flight; while the state is Fetching
\* no submission, no conversation switch and no new conversation is accepted,
\* no fetch is issued, and no tree changes but by the delivery of the reply.
C3_OneFetchInFlight ==
    /\ [](Cardinality(CompletionThreads) + (IF pending = <<>> THEN 0 ELSE 1) <= 1)
    /\ [][(Fetching /\ app' = "running")
          => /\ ~OnSendPressed
             /\ ~OnNewConversationPressed
             /\ ~OnConversationListSelected
             /\ \A i \in 1..Len(threads') :
                   threads'[i].target = "_get_next_completion_thread"
                   => \E j \in 1..Len(threads) : threads[j].conv = threads'[i].conv
                         /\ threads[j].and_then = threads'[i].and_then
             /\ self'.current_conversation = self.current_conversation
             /\ (Trees' # Trees
                    => /\ pending # <<>>
                       /\ Head(pending).fn \in {"add_to_conversation", "add_to_branch"}
                       /\ pending' = Tail(pending))]_vars

\* C3 witness: Fetching, the one fetch waiting for the provider.
C3_Witness ==
    /\ Fetching
    /\ \E i \in CompletionThreads : threads[i].pc = "create"

PhaseSteps ==
    {<<"Idle", "Idle">>, <<"Idle", "Fetch">>, <<"Fetch", "Fetch">>,
     <<"Fetch", "Deliver">>, <<"Fetch", "Stuck">>, <<"Deliver", "Deliver">>,
     <<"Deliver", "Delivered">>, <<"Delivered", "Delivered">>,
     <<"Delivered", "Idle">>, <<"Stuck", "Stuck">>}

\* C4: the user's message is on the tree before the fetch is issued, the reply
\* is added before the return to Idle, and the exchanges never interleave: the
\* phases follow Idle, Fetch, Deliver, Delivered, Idle, a tree changing only
\* with the submission (Idle) and with the delivery of the reply.
C4_StrictAlternation ==
    /\ [](Phase = "Idle" => CompletionThreads = {} /\ pending = <<>>)
    /\ [](Phase = "Fetch" => Cardinality(CompletionThreads) = 1 /\ pending = <<>>)
    /\ [](\A i \in CompletionThreads :
             threads[i].and_then.fn = "add_to_conversation"
             => LET cur == get_current_conversation(TreeAt(self, threads[i].conv))
                IN  cur[Len(cur)].role = "user")
    /\ [][(app = "running" /\ app' = "running")
          => /\ <<Phase, Phase'>> \in PhaseSteps
             /\ (Trees' # Trees
                    => <<Phase, Phase'>> \in
                          {<<"Idle", "Idle">>, <<"Idle", "Fetch">>, <<"Deliver", "Delivered">>})
             /\ (<<Phase, Phase'>> = <<"Deliver", "Delivered">>
                    => /\ Trees' # Trees
                       /\ CurrentPath'[Len(CurrentPath')].role = "assistant")
             /\ (<<Phase, Phase'>> = <<"Delivered", "Idle">> => Trees' = Trees)]_vars

\* C4 witness: the reply of a plain message is on the tree and only
\* stop_thinking_state is left to run.
C4_Witness ==
    /\ Phase = "Delivered"
    /\ Len(CurrentPath) = 3
    /\ CurrentPath[2].content = PromptText
    /\ CurrentPath[3].role = "assistant"

\* C5: no worker reads a tree while the owning context may mutate it: a thread
\* that has yet to read the path of its tree (with a provider configured its
\* next step does) never coexists with an enabled Send button.
C5_NoWorkerReadsMutableTree ==
    \A i \in 1..Len(threads) :
        (openai_api_key /\ threads[i].pc = "start") => ~self.right_button

\* C6: no step of a worker thread writes session state: the frame (trees,
\* collection, titles, widgets) changes in steps of the main loop only.
C6_OnlyOwnerWrites == [][WorkerStep => self' = self]_vars

\* C7: a conversation with no title fetch under way is titled "New
\* conversation" or with a title the model supplied: a title fetch that ended
\* without result leaves the placeholder, so that a later reply asks again.
C7_PlaceholderKept ==
    app = "running" =>
        \A idx \in 0..(Len(self.conversations) - 1) :
            (\A i \in 1..Len(threads) :
                ~(/\ threads[i].target = "_get_title_for_conversation_thread"
                  /\ threads[i].and_then.arg = idx))
            => TitleAt(self, idx) \in {"New conversation"} \cup Titles

\* C8: from every state of the client, the one with no conversation included,
\* what save writes is loaded without error into the same (title, tree) pairs,
\* every selected child included, and the same current index.
C8_SaveLoadRoundTrip ==
    [][OnClose
       => /\ load_raises(stateFile') = "none"
          /\ LET loaded == load([self |-> NewChatClient, threads |-> <<>>,
                                 pending |-> <<>>, raised |-> "none"], stateFile').self
             IN  /\ loaded.conversations = self.conversations
                 /\ loaded.current_conversation_idx = self.current_conversation_idx]_vars

\* C9: with state.dat missing or holding anything save did not write, load
\* returns and the session starts with no conversation and no current one.
C9_LoadNeverCrashes ==
    [][(Launch /\ stateFile.written_by \in {"nobody", "other"})
       => /\ app' = "running"
          /\ self'.conversations = <<>>
          /\ self'.current_conversation = None
          /\ self'.current_conversation_idx = None]_vars

MalformedSw ==
    {<<"/sw">>, <<"/sw", "1">>, <<"/sw", "1", "1", "1">>,
     <<"/sw", "x", "1">>, <<"/sw", "1", "x">>}

\* C10: in an Idle session that has a current conversation, Send with a /sw of
\* a wrong number of arguments, or of arguments that are no integers, ends
\* without an exception, shows the usage message and changes neither the
\* collection nor the state (Idle).
C10_MalformedSwUsage ==
    (Idle /\ self.current_conversation # None) =>
        \A input_string \in MalformedSw :
            LET w == on_send_pressed(World, input_string)
            IN  /\ w.raised = "none"
                /\ w.self.right_text.appended = "unrecognized / command"
                /\ w.self.conversations = self.conversations
                /\ w.self.right_button /\ w.self.left_button /\ w.self.left_list.enabled
                /\ w.threads = threads

\* The outcome of a handler leaves the session Idle and untouched but for the
\* text appended to the transcript.
RejectedWith(w, texts) ==
    /\ w.raised = "none"
    /\ w.self.right_text.appended \in texts
    /\ w.self.conversations = self.conversations
    /\ w.self.current_conversation = self.current_conversation
    /\ w.self.right_button /\ w.self.left_button /\ w.self.left_list.enabled
    /\ w.threads = threads
    /\ w.pending = pending

\* C11: in an Idle session with a current conversation, /nb N with N outside
\* [1, current_path_length), with or without a text, and /nb N without a text
\* on a turn that is no assistant turn, ends without an exception, shows a
\* usage or range message, changes no tree and issues no fetch.
C11_NbRejected ==
    (Idle /\ self.current_conversation # None) =>
        \A n \in 0..(Len(CurrentPath) + 1) : \A text \in {<<>>, BranchText} :
            (\/ n < 1
             \/ n >= Len(CurrentPath)
             \/ (text = <<>> /\ CurrentPath[n + 1].role # "assistant"))
            => RejectedWith(on_send_pressed(World, <<"/nb", IntWord[n + 1]>> \o text),
                   {"requested sibling level for new-branch outside range",
                    "new-branch also requires a prompt"})

\* C12: a regeneration (/nb N on an assistant turn) is issued only for N in
\* range on an assistant turn; the provider is called with exactly the first N
\* messages of the current path; the delivered reply becomes the new last
\* child of the node at position N-1 and its selected child, the children that
\* node had (the replaced turn and all below it) staying as they were, and no
\* other tree changes.
C12_Regeneration ==
    /\ [](\A i \in CompletionThreads :
             threads[i].and_then.fn = "add_to_branch"
             => LET N == threads[i].and_then.arg
                IN  /\ N >= 1 /\ N < Len(CurrentPath)
                    /\ threads[i].conv = self.current_conversation
                    /\ CurrentPath[N + 1].role = "assistant"
                    /\ threads[i].pc = "create"
                       => threads[i].curr_conv =
                              [n \in 1..N |-> [role |-> CurrentPath[n].role,
                                               content |-> CurrentPath[n].content]])
    /\ [][(pending # <<>> /\ Head(pending).fn = "add_to_branch" /\ MainLoopCallAfter)
          => LET N == Head(pending).arg
                 reply == ChatMessage(Head(pending).role, Head(pending).content)
             IN  /\ Len(CurrentPath') = N + 1
                 /\ CurrentPath'[N + 1] = reply
                 /\ reply.role = "assistant"
                 /\ CurrentPath'[N].children = Append(CurrentPath[N].children, reply)
                 /\ CurrentPath'[N].current_child_idx = Len(CurrentPath[N].children)
                 /\ \A n \in 1..N :
                       /\ CurrentPath'[n].role = CurrentPath[n].role
                       /\ CurrentPath'[n].content = CurrentPath[n].content
                       /\ Len(CurrentPath'[n].children) =
                              Len(CurrentPath[n].children) + (IF n = N THEN 1 ELSE 0)
                 /\ \A n \in 1..Len(Trees) :
                       n # self.current_conversation + 1 => Trees'[n] = Trees[n]
                 /\ self'.current_conversation = self.current_conversation]_vars

\* C12 witness: the regenerated reply has been delivered next to the turn it
\* replaces, which is kept with the provider's call having been made on the
\* truncated path.
C12_Witness ==
    /\ openai_api_key
    /\ Idle
    /\ self.current_conversation # None
    /\ Len(CurrentPath) = 3
    /\ CurrentPath[3].role = "assistant"
    /\ Len(CurrentPath[2].children) = 2
    /\ CurrentPath[2].current_child_idx = 1
    /\ CurrentPath[2].children[1].role = "assistant"

\* A node named by the child indices that lead to it from the root, whatever
\* the selections in the tree are.
AddressOf(path, index) == [n \in 1..index |-> path[n].current_child_idx]

RECURSIVE NodeAt(_, _)
NodeAt(msg, address) ==
    IF address = <<>> THEN msg
    ELSE NodeAt(msg.children[Head(address) + 1], Tail(address))

\* The tree below msg with the selection of the node at address blanked.
RECURSIVE WithoutSelectionAt(_, _)
WithoutSelectionAt(msg, address) ==
    IF address = <<>> THEN [msg EXCEPT !.current_child_idx = None]
    ELSE [msg EXCEPT !.children[Head(address) + 1] = WithoutSelectionAt(@, Tail(address))]

\* C13: in every reachable tree, for every position i of the current path
\* that has a selected child k0 and every child index k of that node,
\* /sw i+1 k+1 selects child k of that node and changes nothing else in the
\* tree (no other node's selected child, no message), and a second
\* /sw i+1 k0+1 gives back the tree, the current conversation and the rendered
\* text of before.
C13_BranchRestore ==
    (app = "running" /\ self.current_conversation # None) =>
        \A i \in 0..(Len(CurrentPath) - 2) :
            LET k0 == CurrentPath[i + 1].current_child_idx
                address == AddressOf(CurrentPath, i)
                t0 == TreeAt(self, self.current_conversation)
            IN  \A k \in 0..(Len(CurrentPath[i + 1].children) - 1) :
                    LET s1 == switch_branch(self, i + 1, k + 1)
                        s2 == switch_branch(s1, i + 1, k0 + 1)
                        t1 == TreeAt(s1, s1.current_conversation)
                        t2 == TreeAt(s2, s2.current_conversation)
                    IN  /\ NodeAt(t1[1], address).current_child_idx = k
                        /\ WithoutSelectionAt(t1[1], address) = WithoutSelectionAt(t0[1], address)
                        /\ s1.right_text = [conversation |-> stringify_conversation(t1),
                                            appended |-> ""]
                        /\ t2 = t0
                        /\ get_current_conversation(t2) = CurrentPath
                        /\ s2.right_text.conversation = stringify_conversation(t0)
                        /\ \A n \in 1..Len(self.conversations) :
                              n # self.current_conversation + 1
                              => /\ s1.conversations[n] = self.conversations[n]
                                 /\ s2.conversations[n] = self.conversations[n]

\* C13 witness: a node of the current path has two children and the first is
\* selected again, which only /sw can bring about, with messages below it.
C13_Witness ==
    /\ Idle
    /\ self.current_conversation # None
    /\ \E n \in 1..(Len(CurrentPath) - 2) :
          /\ Len(CurrentPath[n].children) = 2
          /\ CurrentPath[n].current_child_idx = 0

\* C14: in every reachable tree and for every position i = N-1 that /nb N
\* can name, add_to_branch(N, ...) makes the branch width at i one larger and
\* the new message the last and selected child there; the widths above i, and
\* every node of the old path below i (found by its address), are as before;
\* the tree has exactly one node more; and reselecting the old sibling gives
\* the old current conversation back.
C14_BranchKeepsData ==
    (app = "running" /\ self.current_conversation # None) =>
        \A sibling_level \in 1..(Len(CurrentPath) - 1) :
            LET i == sibling_level - 1
                k0 == CurrentPath[i + 1].current_child_idx
                t0 == TreeAt(self, self.current_conversation)
                new == ChatMessage("user", BranchText)
                s1 == add_to_branch(self, sibling_level, "user", BranchText)
                t1 == TreeAt(s1, s1.current_conversation)
                p1 == get_current_conversation(t1)
                s2 == switch_branch(s1, sibling_level, k0 + 1)
                p2 == get_current_conversation(TreeAt(s2, s2.current_conversation))
            IN  /\ get_branch_width(t1, i) = get_branch_width(t0, i) + 1
                /\ \A j \in 0..(i - 1) : get_branch_width(t1, j) = get_branch_width(t0, j)
                /\ \A j \in (i + 1)..(Len(CurrentPath) - 1) :
                      NodeAt(t1[1], AddressOf(CurrentPath, j)) = CurrentPath[j + 1]
                /\ Len(p1) = i + 2
                /\ p1[i + 2] = new
                /\ p1[i + 1].current_child_idx = Len(CurrentPath[i + 1].children)
                /\ p1[i + 1].children = Append(CurrentPath[i + 1].children, new)
                /\ CountNodes(t1[1]) = CountNodes(t0[1]) + 1
                /\ Len(p2) = Len(CurrentPath)
                /\ \A n \in 1..Len(p2) :
                      /\ p2[n].role = CurrentPath[n].role
                      /\ p2[n].content = CurrentPath[n].content
                      /\ n > i + 1 => p2[n] = CurrentPath[n]

\* C14 witness: a branch was made at a node of the current path, the new
\* sibling is selected and the old one still holds its continuation.
C14_Witness ==
    /\ app = "running"
    /\ self.current_conversation # None
    /\ \E n \in 1..(Len(CurrentPath) - 1) :
          /\ Len(CurrentPath[n].children) = 2
          /\ CurrentPath[n].current_child_idx = 1
          /\ CurrentPath[n].children[1].children # <<>>

\* /sw A B names a child that exists: A-1 is a position of the current path
\* and B-1 an index of the children of the node there.
SwInBounds(A, B) ==
    /\ A - 1 >= 0 /\ A - 1 < Len(CurrentPath)
    /\ B - 1 >= 0 /\ B - 1 < Len(CurrentPath[A].children)

\* C15: in an Idle session with a current conversation, /sw A B that names no
\* existing child (A = 0, a leaf or a position past the path, B = 0 or past
\* the children) ends without an exception leaving the handler, appends the
\* error's text to the transcript, and leaves every tree, the rendered
\* conversation and the controls as they were, and starts nothing.
C15_SwOutOfBoundsRejected ==
    (Idle /\ self.current_conversation # None) =>
        \A A \in 0..(Len(CurrentPath) + 1) : \A B \in 0..(MaxNodes + 1) :
            ~SwInBounds(A, B)
            => LET w == on_send_pressed(World, <<"/sw", IntWord[A + 1], IntWord[B + 1]>>)
               IN  /\ RejectedWith(w, {"str(e)"})
                   /\ w.self.right_text.conversation = self.right_text.conversation
                   /\ get_current_conversation(TreeAt(w.self, w.self.current_conversation))
                          = CurrentPath

\* C15 witness: an out-of-bounds /sw has just been answered in a conversation
\* that has a branch to switch to.
C15_Witness ==
    /\ Idle
    /\ self.current_conversation # None
    /\ self.right_text.appended = "str(e)"
    /\ \E n \in 1..Len(CurrentPath) : Len(CurrentPath[n].children) = 2

\* C16: in every reachable state, the text rendered into the transcript and
\* the rendering of every conversation of the collection carry, for every
\* message i >= 1, an indicator (k/width) with 1 <= k <= width, k being the
\* selected child index of the node at position i-1 plus one and width the
\* number of its children.
C16_IndicatorInRange ==
    /\ \A n \in 2..Len(self.right_text.conversation) :
          LET entry == self.right_text.conversation[n]
          IN  1 <= entry.k /\ entry.k <= entry.width
    /\ \A c \in 1..Len(Trees) :
          LET path == get_current_conversation(Trees[c])
              text == stringify_conversation(Trees[c])
          IN  /\ Len(text) = Len(path)
              /\ \A n \in 2..Len(path) :
                    /\ text[n].i = n - 1
                    /\ text[n].k = path[n - 1].current_child_idx + 1
                    /\ text[n].width = Len(path[n - 1].children)
                    /\ 1 <= text[n].k /\ text[n].k <= text[n].width

\* C16 witness: the transcript shows a message that is the second of two
\* alternatives, above one that is the only one.
C16_Witness ==
    \E n \in 2..(Len(self.right_text.conversation) - 1) :
        /\ self.right_text.conversation[n].k = 2
        /\ self.right_text.conversation[n].width = 2
        /\ self.right_text.conversation[n + 1].k = 1
        /\ self.right_text.conversation[n + 1].width = 1

\* C17: in an Idle session, /nb N text with N in [1, current_path_length) on
\* a turn that is no assistant turn makes, within the handler, the text a new
\* user message selected at position N (the path is the old messages 0..N-1
\* and the new one), disables the controls and starts one completion fetch;
\* the provider is called with exactly the current path; and the reply
\* delivered by add_to_conversation becomes the child of the last message of
\* the path.
C17_UserBranch ==
    /\ []((Idle /\ self.current_conversation # None) =>
            \A N \in 1..(Len(CurrentPath) - 1) :
                CurrentPath[N + 1].role # "assistant"
                => LET w == on_send_pressed(World, <<"/nb", IntWord[N + 1]>> \o BranchText)
                       path == get_current_conversation(
                                   TreeAt(w.self, w.self.current_conversation))
                   IN  /\ w.raised = "none"
                       /\ w.self.current_conversation = self.current_conversation
                       /\ Len(path) = N + 1
                       /\ path[N + 1] = ChatMessage("user", BranchText)
                       /\ \A n \in 1..N : /\ path[n].role = CurrentPath[n].role
                                          /\ path[n].content = CurrentPath[n].content
                       /\ path[N].current_child_idx = Len(CurrentPath[N].children)
                       /\ ~w.self.right_button
                       /\ ~w.self.left_button
                       /\ ~w.self.left_list.enabled
                       /\ w.pending = pending
                       /\ Len(w.threads) = Len(threads) + 1
                       /\ w.threads[Len(w.threads)].target = "_get_next_completion_thread"
                       /\ w.threads[Len(w.threads)].conv = self.current_conversation
                       /\ w.threads[Len(w.threads)].and_then.fn = "add_to_conversation")
    /\ [](\A i \in CompletionThreads :
             (threads[i].and_then.fn = "add_to_conversation" /\ threads[i].pc = "create")
             => threads[i].curr_conv =
                    [n \in 1..Len(CurrentPath) |-> [role |-> CurrentPath[n].role,
                                                    content |-> CurrentPath[n].content]])
    /\ [][(pending # <<>> /\ Head(pending).fn = "add_to_conversation" /\ MainLoopCallAfter)
          => LET reply == ChatMessage(Head(pending).role, Head(pending).content)
                 last == Len(CurrentPath)
             IN  /\ Len(CurrentPath') = last + 1
                 /\ CurrentPath'[last + 1] = reply
                 /\ CurrentPath'[last].children = <<reply>>
                 /\ \A n \in 1..last : /\ CurrentPath'[n].role = CurrentPath[n].role
                                       /\ CurrentPath'[n].content = CurrentPath[n].content]_vars

\* C17 witness: with a key, the reply to a user branch has been delivered
\* below the new user message, next to the user turn it is an alternative to.
C17_Witness ==
    /\ openai_api_key
    /\ Idle
    /\ self.current_conversation # None
    /\ \E n \in 1..(Len(CurrentPath) - 2) :
          /\ Len(CurrentPath[n].children) = 2
          /\ CurrentPath[n].current_child_idx = 1
          /\ CurrentPath[n].children[1].role = "user"
          /\ CurrentPath[n + 1].role = "user"
          /\ CurrentPath[n + 1].content = BranchText
          /\ Len(CurrentPath[n + 1].children) = 1
          /\ CurrentPath[n + 2].role = "assistant"

\* C18: a completion thread was handed the current conversation, and the path
\* it sent is the beginning of that conversation's current path; from the issue
\* of the fetch until its reply has been delivered the current conversation
\* and its index do not change, and the delivery changes the tree of the
\* current conversation and no other.
C18_ReplyToSameTree ==
    /\ [](\A i \in CompletionThreads :
             /\ threads[i].conv = self.current_conversation
             /\ self.current_conversation # None
             /\ threads[i].pc = "create"
                => /\ Len(threads[i].curr_conv) <= Len(CurrentPath)
                   /\ \A n \in 1..Len(threads[i].curr_conv) :
                         threads[i].curr_conv[n] =
                             [role |-> CurrentPath[n].role, content |-> CurrentPath[n].content])
    /\ [][(app' = "running" /\ Phase \in {"Fetch", "Deliver"})
          => /\ self'.current_conversation = self.current_conversation
             /\ self'.current_conversation_idx = self.current_conversation_idx
             /\ Len(Trees') = Len(Trees)
             /\ \A n \in 1..Len(Trees) :
                   Trees'[n] # Trees[n]
                   => /\ n = self.current_conversation + 1
                      /\ Phase = "Deliver"
                      /\ MainLoopCallAfter]_vars

\* C18 witness: a reply waits for its delivery while the collection holds
\* another conversation than the one it belongs to.
C18_Witness ==
    /\ Phase = "Deliver"
    /\ Len(self.conversations) = 2
    /\ self.current_conversation = 0

\* Every message of the tree below old is, at the same place, in the tree
\* below new.
RECURSIVE Within(_, _)
Within(old, new) ==
    /\ old.role = new.role
    /\ old.content = new.content
    /\ Len(old.children) <= Len(new.children)
    /\ \A k \in 1..Len(old.children) : Within(old.children[k], new.children[k])

\* C19: in every reachable state either there is no current conversation and
\* no current index, or the index addresses a conversation of the collection
\* and the current conversation is the tree stored there; and while the
\* process lives (its start with load included) no step removes or moves a
\* conversation of the collection: each stays at its place with all its
\* messages.
C19_CurrentIsIndexed ==
    /\ [](\/ /\ self.current_conversation = None
             /\ self.current_conversation_idx = None
          \/ /\ self.current_conversation_idx >= 0
             /\ self.current_conversation_idx < Len(self.conversations)
             /\ self.current_conversation = self.current_conversation_idx)
    /\ [][app' = "running"
          => /\ Len(self'.conversations) >= Len(self.conversations)
             /\ \A n \in 1..Len(self.conversations) :
                   Within(Trees[n][1], Trees'[n][1])]_vars

\* C19 witness: of two conversations, the one made first has been selected in
\* the list and has grown since the other was made.
C19_Witness ==
    /\ Idle
    /\ Len(self.conversations) = 2
    /\ self.current_conversation_idx = 0
    /\ self.left_list.selection = 1
    /\ Len(CurrentPath) >= 3
    /\ Len(get_current_conversation(Trees[2])) = 1

TitleThreads ==
    {i \in 1..Len(threads) : threads[i].target = "_get_title_for_conversation_thread"}

\* C20: a title fetch is issued for the current conversation, whose title then
\* reads "Retrieving title..."; while it is in flight it is the only one for
\* that conversation and knows the conversation it was issued for; and its
\* result replaces the title of that conversation and changes nothing else,
\* whichever conversation is current by then.
C20_TitleToRequester ==
    /\ [](\A i \in TitleThreads :
             /\ threads[i].and_then.arg >= 0
             /\ threads[i].and_then.arg < Len(self.conversations)
             /\ threads[i].conv = threads[i].and_then.arg
             /\ TitleAt(self, threads[i].and_then.arg) = "Retrieving title..."
             /\ \A j \in TitleThreads : threads[j].conv = threads[i].conv => j = i)
    /\ [][(app' = "running" /\ Cardinality(TitleThreads') > Cardinality(TitleThreads))
          => /\ Len(threads') = Len(threads) + 1
             /\ threads'[Len(threads')].target = "_get_title_for_conversation_thread"
             /\ threads'[Len(threads')].conv = self.current_conversation_idx
             /\ self'.current_conversation_idx = self.current_conversation_idx
             /\ TitleAt(self, self.current_conversation_idx) = "New conversation"]_vars
    /\ [][\A i \in 1..Len(threads) :
             TitleThreadReturns(i)
             => /\ TitleAt(self', threads[i].and_then.arg) \in Titles
                /\ \A n \in 1..Len(self.conversations) :
                      n # threads[i].and_then.arg + 1
                      => self'.conversations[n] = self.conversations[n]
                /\ Trees' = Trees
                /\ self'.current_conversation = self.current_conversation
                /\ self'.current_conversation_idx = self.current_conversation_idx]_vars

\* C20 witness: the title of the first conversation is being fetched while
\* the second, made meanwhile, is the current one.
C20_Witness ==
    /\ Len(self.conversations) = 2
    /\ self.current_conversation_idx = 1
    /\ \E i \in TitleThreads : threads[i].conv = 0 /\ threads[i].pc = "create"

====
